---- MODULE Spec2Model ----
(***************************************************************************)
(* SuperFile Explorer (src/src/sf/sf.py): the interaction loop of the      *)
(* file browser, the directory lister it calls on every iteration, and the *)
(* pagination arithmetic of the listing display.                           *)
(*                                                                         *)
(* sf.py defines interactive_explorer twice (line 314 and line 849).  The   *)
(* second def statement rebinds the module-level name before main() runs,  *)
(* so the loop the program executes is the later definition; Spec models   *)
(* that loop.  File names are sequences of character codes, paths are      *)
(* sequences of names, and the root directory '/' is the empty path.       *)
(***************************************************************************)
EXTENDS Integers, Sequences, FiniteSets, TLC

VARIABLES
    current_path,   \* interactive_explorer: current_path
    selected_idx,   \* interactive_explorer: selected_idx
    entries,        \* interactive_explorer: entries, listed at the top of the iteration
    view,           \* what display_directory_listing computed for this iteration
    show_hidden,    \* CONFIG["show_hidden"]
    sort_by,        \* CONFIG["sort_by"]
    reverse_sort,   \* CONFIG["reverse_sort"]
    favorites,      \* CONFIG["favorites"]
    pc,             \* "await": blocked in get_key(); "done"; "interrupted"; "crashed"
    last_key,       \* the key the last iteration dispatched on
    prev_idx,       \* selected_idx before the last key
    search_pick,    \* <<result_path>> when the last key was a search that jumped, else <<>>
    gone,           \* the paths another process has removed since the start
    pg,             \* inputs and results of the pagination arithmetic (SpecPaging)
    lister,         \* one call of list_directory: arguments and result (SpecLister)
    decoder,        \* one call of get_key: platform, pending input, result (SpecKeys)
    search,         \* the traversal of search_in_directory (SpecSearch)
    stats           \* the traversal of show_directory_stats (SpecStats, SpecLargest)

vars == <<current_path, selected_idx, entries, view, show_hidden, sort_by,
          reverse_sort, favorites, pc, last_key, prev_idx, search_pick, gone, pg,
          lister, decoder, search, stats>>

\* the variables of the functions that are checked on their own
passes == <<lister, decoder, search, stats>>

\* the value of such a variable while its function is not being checked
Idle == [stage |-> "off"]

PassesIdle == lister = Idle /\ decoder = Idle /\ search = Idle /\ stats = Idle

(***************************************************************************)
(* Bounds of the model.                                                    *)
(***************************************************************************)
\* number of files in the directory /B/g
NFiles == 3
\* number of files in the large directory /B/k/q
NBig == 21
\* CONFIG["favorites"] is not grown beyond this length
MaxFavorites == 1
\* largest listing length and page size the pagination arithmetic is tried on
MaxN == 12
MaxP == 5

(***************************************************************************)
(* Program constants.                                                      *)
(***************************************************************************)
\* display_directory_listing(..., page_size=20)
page_size == 20
\* '.', the first character of a hidden name
Dot == 46

Max(a, b) == IF a >= b THEN a ELSE b
Min(a, b) == IF a <= b THEN a ELSE b

(***************************************************************************)
(* The file system the browser runs on: a fixed tree.                      *)
(*    /            a (file)   .h (dir)   B (dir)                           *)
(*    /.h          z (file)                                                *)
(*    /B           c (file)   k (dir, unreadable)   g (dir)   C (file)     *)
(*                 e (dir)                                                 *)
(*    /B/g         NFiles files f0, f1, ...                                *)
(*    /B/e         .x (file)                                               *)
(*    /B/k/q       NBig files f0, f1, ... (k can be traversed, not listed) *)
(***************************************************************************)
Root == <<>>
nm_a == <<97>>
nm_h == <<Dot, 104>>
nm_B == <<66>>
nm_z == <<122>>
nm_c == <<99>>
nm_k == <<107>>
nm_g == <<103>>
nm_C == <<67>>
nm_e == <<101>>
nm_x == <<Dot, 120>>
nm_q == <<113>>
nm_f(i) == <<102, 47 + i>>

BigDir == <<nm_B, nm_k, nm_q>>

Dirs == {Root, <<nm_h>>, <<nm_B>>, <<nm_B, nm_k>>, <<nm_B, nm_g>>, <<nm_B, nm_e>>, BigDir}

\* the paths another process may remove while the browser runs
Removable == {<<nm_B, nm_e>>, <<nm_B, nm_g, nm_f(1)>>}

\* the path is still there: neither it nor a directory above it was removed
Exists(path, removed) == \A n \in 1..Len(path) : SubSeq(path, 1, n) \notin removed

\* os.path.isdir
isdir(path, removed) == path \in Dirs /\ Exists(path, removed)

\* whether os.listdir(path) succeeds: the directory is there and may be read
Readable(path, removed) == isdir(path, removed) /\ path # <<nm_B, nm_k>>

\* the children of each directory at the start, in the arbitrary order the
\* file system returns them
children(path) ==
    IF path = Root THEN <<nm_a, nm_h, nm_B>>
    ELSE IF path = <<nm_h>> THEN <<nm_z>>
    ELSE IF path = <<nm_B>> THEN <<nm_c, nm_k, nm_g, nm_C, nm_e>>
    ELSE IF path = <<nm_B, nm_g>> THEN [i \in 1..NFiles |-> nm_f(NFiles + 1 - i)]
    ELSE IF path = BigDir THEN [i \in 1..NBig |-> nm_f(NBig + 1 - i)]
    ELSE IF path = <<nm_B, nm_e>> THEN <<nm_x>>
    ELSE <<>>

\* os.path.join(path, item)
join(path, item) == Append(path, item)

\* os.listdir(path): the children that are still there
listdir(path, removed) ==
    SelectSeq(children(path), LAMBDA item : join(path, item) \notin removed)

\* os.path.dirname(path); dirname('/') is '/'
dirname(path) == IF path = Root THEN Root ELSE SubSeq(path, 1, Len(path) - 1)

\* os.stat(path).st_size and st_mtime of a file
st_size(path) == LET nm == path[Len(path)] IN (nm[Len(nm)] * 7) % 5
st_mtime(path) == LET nm == path[Len(path)] IN 100 + (nm[Len(nm)] % 4)

(***************************************************************************)
(* list_directory: the Directory Lister.                                   *)
(***************************************************************************)
\* str.lower() on a name: 'A'..'Z' become 'a'..'z'
lower(nm) == [i \in 1..Len(nm) |-> IF nm[i] >= 65 /\ nm[i] <= 90 THEN nm[i] + 32 ELSE nm[i]]

\* Python's < on two sort keys (strings, numbers and tuples, as sequences of integers)
KeyLess(a, b) ==
    \E i \in 1..(Min(Len(a), Len(b)) + 1) :
        /\ \A j \in 1..(i - 1) : a[j] = b[j]
        /\ \/ i > Len(a) /\ i <= Len(b)
           \/ i <= Len(a) /\ i <= Len(b) /\ a[i] < b[i]

\* the files os.stat may fail on
Unstattable == {<<nm_a>>, <<nm_B, nm_c>>, <<nm_B, nm_C>>, <<nm_B, nm_g, nm_f(2)>>}

\* datetime.now() as evaluated for the element at position i of the list being
\* sorted (i >= 1), or while the entry of the i-th item from the end is built
\* (i <= 0): later than every file's mtime, and never decreasing from one call
\* to the next; clk is the set of positions before which the clock ticked
Now(i, clk) == 1000 + Cardinality({q \in clk : q <= i})

\* get_file_info with the failure of os.stat ignored
get_file_info_NoSentinel(path, failing, stamp) ==
    [size |-> st_size(path), modified |-> st_mtime(path),
     mime_type |-> "application/octet-stream"]

\* get_file_info: size, modification time and MIME type of a file, and the
\* values of the except clause when os.stat raises; stamp is datetime.now() there
get_file_info(path, failing, stamp) ==
    IF path \in failing
    THEN [size |-> 0, modified |-> stamp, mime_type |-> "unknown"]
    ELSE [size |-> st_size(path), modified |-> st_mtime(path),
          mime_type |-> "application/octet-stream"]

\* the entry list_directory builds for one child (show_details is always True)
MakeEntry(path, item, removed, failing, stamp) ==
    LET full_path == join(path, item) IN
    IF isdir(full_path, removed)
    THEN [name |-> item, path |-> full_path, is_dir |-> TRUE,
          content_count |-> IF Readable(full_path, removed)
                            THEN Len(listdir(full_path, removed)) ELSE -1]
    ELSE LET info == get_file_info(full_path, failing, stamp) IN
         [name |-> item, path |-> full_path, is_dir |-> FALSE,
          size |-> info.size, modified |-> info.modified, mime_type |-> info.mime_type]

\* FilterHidden without the filter
FilterHidden_None(items, sh) == items

\* the items list_directory keeps: all of them, or those not starting with '.'
FilterHidden(items, sh) ==
    SelectSeq(items, LAMBDA item : sh \/ item[1] # Dot)

\* the key functions of the four sorts of list_directory
SortKey(e, sb, i, clk) ==
    IF sb = "name" THEN lower(e.name)
    ELSE IF sb = "type" THEN <<IF e.is_dir THEN 0 ELSE 1>> \o lower(e.name)
    ELSE IF sb = "size" THEN <<IF e.is_dir THEN e.content_count ELSE e.size>>
    ELSE <<IF e.is_dir THEN Now(i, clk) ELSE e.modified>>

\* the key of the second pass: not x["is_dir"]
DirFirstKey(e) == <<IF e.is_dir THEN 0 ELSE 1>>

RECURSIVE InsertStable(_, _, _)
\* x goes before the first element that sorts strictly after it
InsertStable(s, x, reverse) ==
    IF s = <<>> THEN <<x>>
    ELSE IF (IF reverse THEN KeyLess(Head(s).k, x.k) ELSE KeyLess(x.k, Head(s).k))
         THEN <<x>> \o s
         ELSE <<Head(s)>> \o InsertStable(Tail(s), x, reverse)

RECURSIVE SortKeyed(_, _)
\* list.sort(key=..., reverse=...) on a list of [k: key, e: element]: stable, and
\* with reverse=True elements with equal keys keep their original order
SortKeyed(items, reverse) ==
    IF items = <<>> THEN <<>>
    ELSE InsertStable(SortKeyed(SubSeq(items, 1, Len(items) - 1), reverse),
                      items[Len(items)], reverse)

\* entries.sort(key=<key of sort_by>, reverse=reverse)
SortEntries(es, sb, reverse, clk) ==
    LET keyed == [i \in 1..Len(es) |-> [k |-> SortKey(es[i], sb, i, clk), e |-> es[i]]]
        sorted == SortKeyed(keyed, reverse)
    IN [i \in 1..Len(es) |-> sorted[i].e]

\* entries.sort(key=lambda x: not x["is_dir"])
DirsFirst(es) ==
    LET keyed == [i \in 1..Len(es) |-> [k |-> DirFirstKey(es[i]), e |-> es[i]]]
        sorted == SortKeyed(keyed, FALSE)
    IN [i \in 1..Len(es) |-> sorted[i].e]

SortKeys == {"name", "type", "size", "date"}

list_directory(path, sh, sb, reverse, clk, removed, failing) ==
    IF ~Readable(path, removed)
    THEN <<>>      \* os.listdir raises; the except clause prints and [] is returned
    ELSE LET items == FilterHidden(listdir(path, removed), sh)
             es == [i \in 1..Len(items) |->
                       MakeEntry(path, items[i], removed, failing,
                                 Now(i - Len(items), clk))]
             pass1 == IF sb \in SortKeys THEN SortEntries(es, sb, reverse, clk) ELSE es
         IN IF sb # "type" THEN DirsFirst(pass1) ELSE pass1

\* the clock behaviours that can change the result of list_directory: the ticks
\* between the key evaluations of the directories, when sorting by date
Clocks(path, sh, sb, removed) ==
    IF sb = "date" /\ Readable(path, removed)
    THEN LET items == FilterHidden(listdir(path, removed), sh)
         IN SUBSET {i \in 1..Len(items) : isdir(join(path, items[i]), removed)}
    ELSE {{}}

\* list_directory for every directory, configuration, clock behaviour and set
\* of removals, os.stat succeeding (f @@ <<>> is f, as a table computed once)
ListingArgs ==
    UNION {{<<c[1], c[2], c[3], c[4], clk, c[5]>> : clk \in Clocks(c[1], c[2], c[3], c[5])} :
              c \in Dirs \X BOOLEAN \X SortKeys \X BOOLEAN \X SUBSET Removable}
Listing ==
    [a \in ListingArgs |-> list_directory(a[1], a[2], a[3], a[4], a[5], a[6], {})] @@ <<>>

\* the results a call of list_directory can have, for every directory,
\* configuration and set of removals
ListingsTable ==
    [c \in Dirs \X BOOLEAN \X SortKeys \X BOOLEAN \X SUBSET Removable |->
        {Listing[<<c[1], c[2], c[3], c[4], clk, c[5]>>] :
             clk \in Clocks(c[1], c[2], c[3], c[5])}] @@ <<>>

\* the results a call of list_directory can have
Listings(path, sh, sb, reverse, removed) == ListingsTable[<<path, sh, sb, reverse, removed>>]

(***************************************************************************)
(* display_directory_listing: the pagination arithmetic.                   *)
(***************************************************************************)
\* TotalPages rounding down instead of up
TotalPages_Floor(total_entries, ps) == Max(1, total_entries \div ps)

\* total_pages = max(1, (total_entries + page_size - 1) // page_size)
TotalPages(total_entries, ps) == Max(1, (total_entries + ps - 1) \div ps)

\* current_page = min(max(0, (selected_idx + 1) // page_size), total_pages - 1)
CurrentPage(sel, total_entries, ps) ==
    Min(Max(0, (sel + 1) \div ps), TotalPages(total_entries, ps) - 1)

display_directory_listing(path, es, sel, ps) ==
    LET total_entries == Len(es)
        total_pages == TotalPages(total_entries, ps)
        current_page == CurrentPage(sel, total_entries, ps)
        start_idx == current_page * ps
        end_idx == Min(start_idx + ps, total_entries)
    IN [total_pages |-> total_pages, current_page |-> current_page,
        start_idx |-> start_idx, end_idx |-> end_idx,
        parent_row |-> path # Root,
        marked |-> IF sel = -1 THEN (IF path # Root THEN {-1} ELSE {})
                   ELSE {idx \in start_idx..(end_idx - 1) : idx = sel}]

(***************************************************************************)
(* interactive_explorer (the later definition): one action per key.        *)
(***************************************************************************)
\* the values get_key() returns that the dispatcher has no branch for: the
\* paging arrows and None
UnhandledKeys == {"left", "right", "none"}

\* the choices of the Tab menu
Options == {"Statistiques", "Vue hexadecimale", "Proprietes", "Copier", "Deplacer",
            "Supprimer", "Retour"}

\* KeyUp with the floor at the first entry instead of the parent row
KeyUp_FloorZero(sel) == Max(sel - 1, 0)

\* up: selected_idx = max(selected_idx - 1, -1)
KeyUp(sel) == Max(sel - 1, -1)

\* KeyDown without the clamp to the last entry
KeyDown_Unclamped(sel, n) == sel + 1

\* down: selected_idx = min(selected_idx + 1, len(entries) - 1)
KeyDown(sel, n) == Min(sel + 1, n - 1)

\* EnterParentPath without the call of os.path.dirname
EnterParentPath_Stay(path) == path

\* enter on the parent row: current_path = os.path.dirname(current_path) unless '/'
EnterParentPath(path) == IF path # Root THEN dirname(path) ELSE path

\* the top of the next iteration: entries = list_directory(current_path), then
\* display_directory_listing(current_path, entries, selected_idx), then get_key()
\* shutil.disk_usage(path) in the status bar raises when the path is not there
\* any more, outside every try
NextIteration ==
    /\ entries' \in Listings(current_path', show_hidden', sort_by', reverse_sort', gone')
    /\ IF Exists(current_path', gone')
       THEN /\ view' = display_directory_listing(current_path', entries', selected_idx',
                                                 page_size)
            /\ pc' = "await"
       ELSE /\ view' = view
            /\ pc' = "crashed"

\* an exception nothing catches leaves the loop and main(): the process dies
Crash ==
    /\ pc' = "crashed"
    /\ UNCHANGED <<current_path, selected_idx, entries, view>>

\* the history of a key that is not a search jump
Remember(key) ==
    /\ last_key' = key
    /\ prev_idx' = selected_idx
    /\ search_pick' = <<>>

\* QuitPc with the loop going on
QuitPc_Await == "await"

\* q: break leaves the while loop, interactive_explorer and main return
QuitPc == "done"

Quit ==
    /\ pc = "await"
    /\ Remember("q")
    /\ pc' = QuitPc
    /\ UNCHANGED <<current_path, selected_idx, entries, view, show_hidden, sort_by,
                   reverse_sort, favorites, gone, pg, passes>>

\* Ctrl-C: main() catches KeyboardInterrupt, prints and returns
Interrupt ==
    /\ pc = "await"
    /\ Remember("interrupt")
    /\ pc' = "interrupted"
    /\ UNCHANGED <<current_path, selected_idx, entries, view, show_hidden, sort_by,
                   reverse_sort, favorites, gone, pg, passes>>

\* Up leaving the directory for its parent
Up_Ascends ==
    /\ pc = "await"
    /\ Remember("up")
    /\ selected_idx' = KeyUp(selected_idx)
    /\ current_path' = EnterParentPath(current_path)
    /\ UNCHANGED <<show_hidden, sort_by, reverse_sort, favorites, gone, pg, passes>>
    /\ NextIteration

Up ==
    /\ pc = "await"
    /\ Remember("up")
    /\ selected_idx' = KeyUp(selected_idx)
    /\ UNCHANGED <<current_path, show_hidden, sort_by, reverse_sort, favorites, gone, pg, passes>>
    /\ NextIteration

Down ==
    /\ pc = "await"
    /\ Remember("down")
    /\ selected_idx' = KeyDown(selected_idx, Len(entries))
    /\ UNCHANGED <<current_path, show_hidden, sort_by, reverse_sort, favorites, gone, pg, passes>>
    /\ NextIteration

\* the target of enter on a directory entry: selected["path"]
EnterDirectoryPath(selected) == selected.path

\* EnterDirectoryIdx without the reset of the cursor
EnterDirectoryIdx_Kept == selected_idx

\* selected_idx after a directory was entered
EnterDirectoryIdx == 0

\* EnterFileIdx with the cursor sent back to the first entry
EnterFileIdx_Reset(sel) == 0

\* selected_idx after view_file and input() returned: not assigned
EnterFileIdx(sel) == sel

Enter ==
    /\ pc = "await"
    /\ Remember("enter")
    /\ UNCHANGED <<show_hidden, sort_by, reverse_sort, favorites, gone, pg, passes>>
    /\ IF selected_idx = -1
       THEN /\ current_path' = EnterParentPath(current_path)
            /\ selected_idx' = 0
            /\ NextIteration
       ELSE IF selected_idx >= Len(entries)
       THEN Crash                    \* entries[selected_idx]: IndexError
       ELSE LET selected == entries[selected_idx + 1] IN
            IF selected.is_dir
            THEN /\ current_path' = EnterDirectoryPath(selected)
                 /\ selected_idx' = EnterDirectoryIdx
                 /\ NextIteration
            ELSE \* view_file, then input(): back to the top of the loop
                 /\ UNCHANGED current_path
                 /\ selected_idx' = EnterFileIdx(selected_idx)
                 /\ NextIteration

\* Tab: the options menu.  Every branch that reads entries[selected_idx] is
\* guarded by selected_idx >= 0 only, so it raises IndexError on an empty listing
TabRaises(option, sel, n) ==
    /\ option \in {"Statistiques", "Vue hexadecimale", "Proprietes"}
    /\ sel >= 0
    /\ sel >= n

Tab ==
    /\ pc = "await"
    /\ Remember("tab")
    /\ UNCHANGED <<show_hidden, sort_by, reverse_sort, favorites, gone, pg, passes>>
    /\ \E raises \in {TabRaises(option, selected_idx, Len(entries)) : option \in Options} :
          IF raises
          THEN Crash                 \* entries[selected_idx]: IndexError
          ELSE /\ UNCHANGED <<current_path, selected_idx>>
               /\ NextIteration

RECURSIVE Walk(_, _, _)
\* what os.walk(path) hands to the search loop: the children of path and of every
\* directory below it, hidden names pruned unless show_hidden; a directory that
\* cannot be listed yields nothing
Walk(path, sh, removed) ==
    IF ~Readable(path, removed) THEN {}
    ELSE LET items == FilterHidden(listdir(path, removed), sh)
             here == {join(path, items[i]) : i \in 1..Len(items)}
         IN here \cup UNION {Walk(d, sh, removed) : d \in {p \in here : isdir(p, removed)}}

\* Walk for every directory, both values of show_hidden and every set of removals
WalkTable ==
    [a \in Dirs \X BOOLEAN \X SUBSET Removable |-> Walk(a[1], a[2], a[3])] @@ <<>>

\* the paths search_in_directory can return: a result the user picked
SearchResults(path, sh, removed) == WalkTable[<<path, sh, removed>>]

\* SearchFileIdx counting the entries from 1
SearchFileIdx_OneBased(new_entries, result_path, sel) ==
    IF \E i \in 1..Len(new_entries) : new_entries[i].path = result_path
    THEN CHOOSE i \in 1..Len(new_entries) :
             /\ new_entries[i].path = result_path
             /\ \A j \in 1..(i - 1) : new_entries[j].path # result_path
    ELSE sel

\* selected_idx after a jump to the file result_path: its index in the listing
\* of its directory, and the old selected_idx when the loop does not find it
SearchFileIdx(new_entries, result_path, sel) ==
    IF \E i \in 1..Len(new_entries) : new_entries[i].path = result_path
    THEN (CHOOSE i \in 1..Len(new_entries) :
              /\ new_entries[i].path = result_path
              /\ \A j \in 1..(i - 1) : new_entries[j].path # result_path) - 1
    ELSE sel

\* the search key.  search_in_directory walks the tree, then waits for the user
\* to pick a result; removed_after is what is gone when the pick is resolved
SearchJump(removed_after) ==
    /\ pc = "await"
    /\ last_key' = "search"
    /\ prev_idx' = selected_idx
    /\ gone' = removed_after
    /\ UNCHANGED <<show_hidden, sort_by, reverse_sort, favorites, pg, passes>>
    /\ \/ \* an empty query, no result, or no result picked
          /\ search_pick' = <<>>
          /\ UNCHANGED <<current_path, selected_idx>>
          /\ NextIteration
       \/ \E result_path \in SearchResults(current_path, show_hidden, gone) :
             /\ search_pick' = <<result_path>>
             /\ IF isdir(result_path, removed_after)
                THEN /\ current_path' = result_path
                     /\ selected_idx' = 0
                     /\ NextIteration
                ELSE /\ current_path' = dirname(result_path)
                     /\ selected_idx' \in
                            {SearchFileIdx(new_entries, result_path, selected_idx) :
                                 new_entries \in Listings(dirname(result_path), show_hidden,
                                                          sort_by, reverse_sort,
                                                          removed_after)}
                     /\ NextIteration

\* a search during which the file system does not change
Search == \E removed_after \in {gone} : SearchJump(removed_after)

\* a search during which another process removes a path, after the walk and
\* before the pick is resolved
SearchRaced == \E path \in Removable \ gone : SearchJump(gone \cup {path})

\* another process removes a path while the loop is blocked in get_key()
Vanish ==
    /\ pc = "await"
    /\ \E path \in Removable \ gone : gone' = gone \cup {path}
    /\ search_pick' = <<>>
    /\ UNCHANGED <<current_path, selected_idx, entries, view, show_hidden, sort_by,
                   reverse_sort, favorites, pc, last_key, prev_idx, pg, passes>>

\* HiddenToggled always switching the hidden entries on
HiddenToggled_On(sh) == TRUE

\* CONFIG["show_hidden"] = not CONFIG["show_hidden"]
HiddenToggled(sh) == ~sh

ToggleHidden ==
    /\ pc = "await"
    /\ Remember("h")
    /\ show_hidden' = HiddenToggled(show_hidden)
    /\ selected_idx' = 0
    /\ UNCHANGED <<current_path, sort_by, reverse_sort, favorites, gone, pg, passes>>
    /\ NextIteration

\* SortChoice keeping the direction when the key changes
SortChoice_KeepReverse(chosen, sb, rv) ==
    IF chosen = sb
    THEN [sort_by |-> sb, reverse_sort |-> ~rv]
    ELSE [sort_by |-> chosen, reverse_sort |-> rv]

\* the sort menu: the current key again inverts the direction, another key is
\* taken and the direction reset
SortChoice(chosen, sb, rv) ==
    IF chosen = sb
    THEN [sort_by |-> sb, reverse_sort |-> ~rv]
    ELSE [sort_by |-> chosen, reverse_sort |-> FALSE]

Sort ==
    /\ pc = "await"
    /\ Remember("s")
    /\ \E chosen \in SortKeys :
          /\ sort_by' = SortChoice(chosen, sort_by, reverse_sort).sort_by
          /\ reverse_sort' = SortChoice(chosen, sort_by, reverse_sort).reverse_sort
    /\ selected_idx' = 0
    /\ UNCHANGED <<current_path, show_hidden, favorites, gone, pg, passes>>
    /\ NextIteration

Refresh ==
    /\ pc = "await"
    /\ Remember("r")
    /\ selected_idx' = 0
    /\ UNCHANGED <<current_path, show_hidden, sort_by, reverse_sort, favorites, gone, pg, passes>>
    /\ NextIteration

\* ListRemove that removes nothing
ListRemove_Keep(s, x) == s

\* list.remove(x): the first occurrence of x is taken out
ListRemove(s, x) ==
    LET first == CHOOSE i \in 1..Len(s) : s[i] = x /\ \A j \in 1..(i - 1) : s[j] # x
    IN SubSeq(s, 1, first - 1) \o SubSeq(s, first + 1, Len(s))

Favorite ==
    /\ pc = "await"
    /\ Remember("f")
    /\ IF \E i \in 1..Len(favorites) : favorites[i] = current_path
       THEN favorites' = ListRemove(favorites, current_path)
       ELSE /\ Len(favorites) < MaxFavorites
            /\ favorites' = Append(favorites, current_path)
    /\ UNCHANGED <<current_path, selected_idx, show_hidden, sort_by, reverse_sort, gone, pg,
                   passes>>
    /\ NextIteration

\* UnhandledIdx with the cursor sent back to the first entry
UnhandledIdx_Reset(sel) == 0

\* selected_idx after a key no branch matches: not assigned
UnhandledIdx(sel) == sel

\* a key no branch of the dispatcher matches
Unhandled ==
    /\ pc = "await"
    /\ \E key \in UnhandledKeys : Remember(key)
    /\ selected_idx' = UnhandledIdx(selected_idx)
    /\ UNCHANGED <<current_path, show_hidden, sort_by, reverse_sort, favorites, gone, pg,
                   passes>>
    /\ NextIteration

\* pg outside the pagination specification
NoPaging == [stage |-> "off", n |-> 0, p |-> 1, sel |-> 0, total_pages |-> 0,
             current_page |-> 0, start_idx |-> 0, end_idx |-> 0]

\* the first iteration of the loop started in start_path
Start(StartPaths) ==
    /\ current_path \in StartPaths
    /\ selected_idx = 0
    /\ show_hidden \in BOOLEAN
    /\ sort_by = "name"
    /\ reverse_sort = FALSE
    /\ favorites = <<>>
    /\ gone = {}
    /\ entries \in Listings(current_path, show_hidden, sort_by, reverse_sort, gone)
    /\ view = display_directory_listing(current_path, entries, selected_idx, page_size)
    /\ pc = "await"
    /\ last_key = "start"
    /\ prev_idx = selected_idx
    /\ search_pick = <<>>

\* main(): the start directory is a directory (os.path.isdir), --show-hidden may
\* be given; the large directory is left to SpecPages
Init == Start(Dirs \ {BigDir}) /\ pg = NoPaging /\ PassesIdle

Next ==
    \/ Quit
    \/ Interrupt
    \/ Up
    \/ Down
    \/ Enter
    \/ Tab
    \/ Search
    \/ ToggleHidden
    \/ Sort
    \/ Refresh
    \/ Favorite
    \/ Unhandled

Spec == Init /\ [][Next]_vars

(***************************************************************************)
(* The loop started in the large directory, under the cursor and paging    *)
(* keys.                                                                   *)
(***************************************************************************)
InitPages == Start({BigDir}) /\ pg = NoPaging /\ PassesIdle

NextPages ==
    \/ Quit
    \/ Up
    \/ Down
    \/ Refresh
    \/ Unhandled

SpecPages == InitPages /\ [][NextPages]_vars

(***************************************************************************)
(* The loop while another process removes files and directories.           *)
(***************************************************************************)
InitRace == Start({<<nm_B>>, <<nm_B, nm_g>>, <<nm_B, nm_e>>}) /\ pg = NoPaging /\ PassesIdle

NextRace ==
    \/ Vanish
    \/ Quit
    \/ Up
    \/ Down
    \/ Enter
    \/ Search
    \/ SearchRaced
    \/ Refresh

SpecRace == InitRace /\ [][NextRace]_vars

(***************************************************************************)
(* The user who goes up: up until the parent row is selected, then enter,  *)
(* again and again, from any directory and any cursor position the loop    *)
(* can be in.  The loop handles every key it is given, so the one step the *)
(* user takes next is taken (weak fairness).                               *)
(***************************************************************************)
InitAscend ==
    /\ current_path \in Dirs
    /\ show_hidden \in BOOLEAN
    /\ sort_by \in SortKeys
    /\ reverse_sort \in BOOLEAN
    /\ favorites = <<>>
    /\ gone = {}
    /\ search_pick = <<>>
    /\ entries \in Listings(current_path, show_hidden, sort_by, reverse_sort, gone)
    /\ selected_idx \in (-1..(Len(entries) - 1)) \cup {0}
    /\ view = display_directory_listing(current_path, entries, selected_idx, page_size)
    /\ pc = "await"
    /\ last_key = "start"
    /\ prev_idx = selected_idx
    /\ pg = NoPaging /\ PassesIdle

NextAscend ==
    \/ selected_idx > -1 /\ Up
    \/ selected_idx = -1 /\ Enter

SpecAscend == InitAscend /\ [][NextAscend]_vars /\ WF_vars(NextAscend)

(***************************************************************************)
(* The pagination arithmetic of display_directory_listing on its own: a    *)
(* listing length, a page size and a selected index are drawn, then the    *)
(* page numbers are computed.                                              *)
(***************************************************************************)
InitPaging ==
    /\ Start({Root})
    /\ show_hidden = FALSE
    /\ PassesIdle
    /\ \E n \in 0..MaxN, p \in 1..MaxP :
          \E sel \in (-1..(n - 1)) \cup {0} :
             pg = [NoPaging EXCEPT !.stage = "input", !.n = n, !.p = p, !.sel = sel]

Paginate ==
    /\ pg.stage = "input"
    /\ LET es == [i \in 1..pg.n |-> i]
           shown == display_directory_listing(Root, es, pg.sel, pg.p)
       IN pg' = [pg EXCEPT !.stage = "computed",
                           !.total_pages = shown.total_pages,
                           !.current_page = shown.current_page,
                           !.start_idx = shown.start_idx,
                           !.end_idx = shown.end_idx]
    /\ UNCHANGED <<current_path, selected_idx, entries, view, show_hidden, sort_by,
                   reverse_sort, favorites, pc, last_key, prev_idx, search_pick, gone, passes>>

NextPaging == Paginate

SpecPaging == InitPaging /\ [][NextPaging]_vars

(***************************************************************************)
(* list_directory on its own: one call, for any directory, configuration,  *)
(* set of removed paths, set of children os.stat fails on, and clock.      *)
(***************************************************************************)
\* the children of path os.stat may fail on
FailingSets(path) ==
    SUBSET {f \in Unstattable : Len(f) = Len(path) + 1 /\ SubSeq(f, 1, Len(path)) = path}

\* the clock behaviours of one call: the ticks before the entry of a failing
\* child is built, and those between the key evaluations of the date sort
ListerClocks(path, sh, sb, removed, failing) ==
    IF ~Readable(path, removed) THEN {{}}
    ELSE LET items == FilterHidden(listdir(path, removed), sh)
             n == Len(items)
         IN SUBSET ({i - n : i \in {j \in 1..n : join(path, items[j]) \in failing}}
                    \cup {i \in 1..n : sb = "date" /\ isdir(join(path, items[i]), removed)})

InitLister ==
    /\ Start({Root})
    /\ show_hidden = FALSE
    /\ pg = NoPaging
    /\ decoder = Idle /\ search = Idle /\ stats = Idle
    /\ \E path \in Dirs \ {BigDir}, sh \in BOOLEAN, sb \in SortKeys, reverse \in BOOLEAN,
          removed \in SUBSET Removable :
          \E failing \in FailingSets(path) :
             \E clk \in ListerClocks(path, sh, sb, removed, failing) :
                lister = [stage |-> "input", path |-> path, show_hidden |-> sh,
                          sort_by |-> sb, reverse_sort |-> reverse, clk |-> clk,
                          removed |-> removed, failing |-> failing, result |-> <<>>]

ListDirectory ==
    /\ lister.stage = "input"
    /\ lister' = [lister EXCEPT
                     !.stage = "returned",
                     !.result = list_directory(lister.path, lister.show_hidden,
                                               lister.sort_by, lister.reverse_sort,
                                               lister.clk, lister.removed, lister.failing)]
    /\ UNCHANGED <<current_path, selected_idx, entries, view, show_hidden, sort_by,
                   reverse_sort, favorites, pc, last_key, prev_idx, search_pick, gone, pg,
                   decoder, search, stats>>

NextLister == ListDirectory

SpecLister == InitLister /\ [][NextLister]_vars

(***************************************************************************)
(* get_key (the three variants the later interactive_explorer defines) on  *)
(* its own: one call on the input that is pending.  On Windows and Unix    *)
(* the input is a sequence of bytes, for the prompt fallback a sequence of *)
(* typed lines; eof says that the input ends after them.                   *)
(***************************************************************************)
\* the longest pending input
MaxKeyBytes == 3

Platforms == {"windows", "unix", "prompt"}

\* the bytes tried: 0xe0, 'H', 'G', ESC, '[', 'A', '\r', '\t', 'q', 'x'
KeyBytes == {224, 72, 71, 27, 91, 65, 13, 9, 113, 120}

\* the lines tried at the prompt
KeyLines == {"u", "d", "Enter", "Tab", "q", "up", "x"}

RECURSIVE SeqsUpTo(_, _)
\* the sequences over S of length at most n
SeqsUpTo(S, n) ==
    IF n = 0 THEN {<<>>}
    ELSE LET shorter == SeqsUpTo(S, n - 1)
         IN shorter \cup {Append(q, x) : q \in {r \in shorter : Len(r) = n - 1}, x \in S}

Inputs(platform) ==
    IF platform = "prompt" THEN SeqsUpTo(KeyLines, MaxKeyBytes)
    ELSE SeqsUpTo(KeyBytes, MaxKeyBytes)

\* the keys the dispatcher of the loop has a branch for
HandledKeys == {"q", "up", "down", "enter", "tab", "search", "h", "s", "r", "f"}

\* what a call of get_key comes to
Returned(value, used) == [kind |-> "returned", value |-> value, used |-> used]
Raised(value, used) == [kind |-> "raised", value |-> value, used |-> used]
Blocked == [kind |-> "blocked", value |-> "none", used |-> 0]

\* {b'H': 'up', b'P': 'down', b'M': 'right', b'K': 'left'}
WindowsArrows ==
    (72 :> "up") @@ (80 :> "down") @@ (77 :> "right") @@ (75 :> "left")

\* {b'\r': 'enter', b'\t': 'tab', b'/': 'search', b'h': 'h', ...}
WindowsKeys ==
    (13 :> "enter") @@ (9 :> "tab") @@ (47 :> "search") @@ (104 :> "h") @@
    (115 :> "s") @@ (114 :> "r") @@ (102 :> "f") @@ (113 :> "q")

\* dict.get(key, None)
DictGet(dict, key) == IF key \in DOMAIN dict THEN dict[key] ELSE "none"

\* the arrow table subscripted with the second byte: KeyError when it is not there
WindowsArrow(second, used) ==
    IF second \in DOMAIN WindowsArrows
    THEN Returned(WindowsArrows[second], used)
    ELSE Raised("KeyError", used)

get_key_windows(input) ==
    IF Len(input) = 0 THEN Blocked                       \* msvcrt.getch() waits
    ELSE IF input[1] = 224
    THEN IF Len(input) < 2 THEN Blocked                  \* the second getch() waits
         ELSE WindowsArrow(input[2], 2)
    ELSE Returned(DictGet(WindowsKeys, input[1]), 1)

\* the escape sequences of the arrows, after ESC
UnixArrows ==
    (<<91, 65>> :> "up") @@ (<<91, 66>> :> "down") @@ (<<91, 67>> :> "right") @@
    (<<91, 68>> :> "left")

\* {'': 'enter', '\t': 'tab', '/': 'search', 'h': 'h', ...}
UnixKeys ==
    (<<>> :> "enter") @@ (<<9>> :> "tab") @@ (<<47>> :> "search") @@ (<<104>> :> "h") @@
    (<<115>> :> "s") @@ (<<114>> :> "r") @@ (<<102>> :> "f") @@ (<<113>> :> "q")

get_key_unix(input, eof) ==
    IF Len(input) = 0
    THEN IF eof THEN Returned(DictGet(UnixKeys, <<>>), 0)   \* read(1) gives ''
         ELSE Blocked
    ELSE IF input[1] = 27
    THEN IF Len(input) < 3 /\ ~eof THEN Blocked             \* read(2) waits
         ELSE LET ch == SubSeq(input, 2, Min(Len(input), 3)) IN
              IF ch \in DOMAIN UnixArrows
              THEN Returned(UnixArrows[ch], 1 + Len(ch))
              ELSE Returned(DictGet(UnixKeys, ch), 1 + Len(ch))
    ELSE Returned(DictGet(UnixKeys, <<input[1]>>), 1)

\* Prompt.ask(..., choices=[...]): the first line that is one of the choices
PromptChoices == {"u", "d", "Enter", "Tab", "/", "h", "s", "r", "f", "q"}

get_key_prompt(input, eof) ==
    LET valid == {i \in 1..Len(input) : input[i] \in PromptChoices} IN
    IF valid # {}
    THEN LET first == CHOOSE i \in valid : \A j \in valid : i <= j
         IN Returned(input[first], first)
    ELSE IF eof THEN Raised("EOFError", Len(input))         \* input() at end of file
    ELSE Blocked                                            \* asks again

get_key(platform, input, eof) ==
    IF platform = "windows" THEN get_key_windows(input)
    ELSE IF platform = "unix" THEN get_key_unix(input, eof)
    ELSE get_key_prompt(input, eof)

\* the values each variant returns on the inputs tried
Vocabulary ==
    [platform \in Platforms |->
        {r.value : r \in {q \in {get_key(platform, input, eof) :
                                    input \in Inputs(platform), eof \in BOOLEAN} :
                             q.kind = "returned"}}] @@ <<>>

InitKeys ==
    /\ Start({Root})
    /\ show_hidden = FALSE
    /\ pg = NoPaging
    /\ lister = Idle /\ search = Idle /\ stats = Idle
    /\ \E platform \in Platforms, eof \in BOOLEAN :
          \E input \in Inputs(platform) :
             decoder = [stage |-> "input", platform |-> platform, input |-> input,
                        eof |-> eof, kind |-> "none", value |-> "none", used |-> 0]

GetKey ==
    /\ decoder.stage = "input"
    /\ LET r == get_key(decoder.platform, decoder.input, decoder.eof)
       IN decoder' = [decoder EXCEPT !.stage = "called", !.kind = r.kind,
                                     !.value = r.value, !.used = r.used]
    /\ UNCHANGED <<current_path, selected_idx, entries, view, show_hidden, sort_by,
                   reverse_sort, favorites, pc, last_key, prev_idx, search_pick, gone, pg,
                   lister, search, stats>>

NextKeys == GetKey

SpecKeys == InitKeys /\ [][NextKeys]_vars

(***************************************************************************)
(* search_in_directory on its own: the loop over os.walk, one item of one  *)
(* directory per step.  The tree is the sequence of directories os.walk    *)
(* yields; of each, the number of items left after the hidden filter and   *)
(* which of them contain the query.                                        *)
(***************************************************************************)
\* search_in_directory(path, query, max_results=100)
max_results == 100

\* the most directories os.walk yields, and the most items of one of them
MaxWalkDirs == 2
MaxItems == 70

\* which items of a directory contain the query
MatchPatterns == {"all", "none", "odd"}

\* query_lower in item.lower(), for item number i of a directory
Matches(pattern, i) == pattern = "all" \/ (pattern = "odd" /\ i % 2 = 1)

WalkDirs == [n : {0, MaxItems \div 2, MaxItems}, pattern : MatchPatterns]

\* ReachedMax that lets one result more in
ReachedMax_Over(len_results, bound) == len_results > bound

\* len(results) >= max_results
ReachedMax(len_results, bound) == len_results >= bound

InitSearch ==
    /\ Start({Root})
    /\ show_hidden = FALSE
    /\ pg = NoPaging
    /\ lister = Idle /\ decoder = Idle /\ stats = Idle
    /\ \E walk \in SeqsUpTo(WalkDirs, MaxWalkDirs) :
          search = [stage |-> IF walk = <<>> THEN "done" ELSE "walking", walk |-> walk,
                    dir |-> 1, item |-> 1, len_results |-> 0, examined |-> 0]

\* one turn of "for item in dirs + files", and what follows the last turn
SearchItem ==
    /\ search.stage = "walking"
    /\ LET here == search.walk[search.dir] IN
       IF search.item > here.n
       THEN \* the directory is done: the outer test, then the next directory
            IF ReachedMax(search.len_results, max_results) \/ search.dir = Len(search.walk)
            THEN search' = [search EXCEPT !.stage = "done"]
            ELSE search' = [search EXCEPT !.dir = @ + 1, !.item = 1]
       ELSE LET found == IF Matches(here.pattern, search.item)
                         THEN search.len_results + 1 ELSE search.len_results
            IN IF ReachedMax(found, max_results)
               THEN \* break, and break again after the inner loop
                    search' = [search EXCEPT !.len_results = found, !.examined = @ + 1,
                                             !.stage = "done"]
               ELSE search' = [search EXCEPT !.len_results = found, !.examined = @ + 1,
                                             !.item = @ + 1]
    /\ UNCHANGED <<current_path, selected_idx, entries, view, show_hidden, sort_by,
                   reverse_sort, favorites, pc, last_key, prev_idx, search_pick, gone, pg,
                   lister, decoder, stats>>

NextSearch == SearchItem

SpecSearch == InitSearch /\ [][NextSearch]_vars

(***************************************************************************)
(* show_directory_stats on its own, at two grains.  SpecStats: the loop    *)
(* over os.walk, one directory per step, counting files.  SpecLargest: the *)
(* loop over the files of a directory, one file per step, keeping the      *)
(* largest files.                                                          *)
(***************************************************************************)
\* max_depth = 5, max_files = 1000, and the [:10] of largest_files
max_depth == 5
max_files == 1000
keep_largest == 10

\* the most directories os.walk yields, and the most files of one of them
MaxStatDirs == 3
MaxDirFiles == 1200

\* a directory os.walk yields: its depth below the start, its number of files
\* after the hidden filter
StatDirs == [depth : {0, max_depth, max_depth + 1},
             nfiles : {0, MaxDirFiles \div 2, MaxDirFiles}]

InitStats ==
    /\ Start({Root})
    /\ show_hidden = FALSE
    /\ pg = NoPaging
    /\ lister = Idle /\ decoder = Idle /\ search = Idle
    /\ \E walk \in SeqsUpTo(StatDirs, MaxStatDirs) :
          stats = [stage |-> IF walk = <<>> THEN "done" ELSE "walking", walk |-> walk,
                   dir |-> 1, total_files |-> 0, sized |-> 0]

\* one turn of "for root, dirs, files in os.walk(path)"
StatsDirectory ==
    /\ stats.stage = "walking"
    /\ LET here == stats.walk[stats.dir]
           last == stats.dir = Len(stats.walk)
       IN IF here.depth > max_depth
          THEN \* dirs.clear(); continue
               stats' = [stats EXCEPT !.dir = IF last THEN @ ELSE @ + 1,
                                      !.stage = IF last THEN "done" ELSE "walking"]
          ELSE LET counted == stats.total_files + here.nfiles IN
               \* total_files += len(files); every file is sized; then the test
               stats' = [stats EXCEPT
                            !.total_files = counted,
                            !.sized = @ + here.nfiles,
                            !.dir = IF last \/ counted > max_files THEN @ ELSE @ + 1,
                            !.stage = IF last \/ counted > max_files
                                      THEN "done" ELSE "walking"]
    /\ UNCHANGED <<current_path, selected_idx, entries, view, show_hidden, sort_by,
                   reverse_sort, favorites, pc, last_key, prev_idx, search_pick, gone, pg,
                   lister, decoder, search>>

NextStats == StatsDirectory

SpecStats == InitStats /\ [][NextStats]_vars

\* the most files processed, and the sizes os.path.getsize returns
MaxStatFiles == 12
FileSizes == {1, 2}

\* largest_files.sort(key=lambda x: x[1], reverse=True)
SortLargest(lf) ==
    LET keyed == [i \in 1..Len(lf) |-> [k |-> <<lf[i][2]>>, e |-> lf[i]]]
        sorted == SortKeyed(keyed, TRUE)
    IN [i \in 1..Len(lf) |-> sorted[i].e]

\* KeepLargest keeping the end of the list
KeepLargest_Last(lf) == SubSeq(lf, Max(1, Len(lf) - keep_largest + 1), Len(lf))

\* largest_files[:10]
KeepLargest(lf) == SubSeq(lf, 1, Min(Len(lf), keep_largest))

InitLargest ==
    /\ Start({Root})
    /\ show_hidden = FALSE
    /\ pg = NoPaging
    /\ lister = Idle /\ decoder = Idle /\ search = Idle
    /\ stats = [stage |-> "files", largest_files |-> <<>>, sizes |-> <<>>]

\* one turn of "for file in files" on a file whose size can be read
StatsFile ==
    /\ stats.stage = "files"
    /\ Len(stats.sizes) < MaxStatFiles
    /\ \E size \in FileSizes :
          LET file_path == Len(stats.sizes) + 1 IN
          stats' = [stats EXCEPT
                       !.sizes = Append(@, size),
                       !.largest_files =
                           KeepLargest(SortLargest(Append(@, <<file_path, size>>)))]
    /\ UNCHANGED <<current_path, selected_idx, entries, view, show_hidden, sort_by,
                   reverse_sort, favorites, pc, last_key, prev_idx, search_pick, gone, pg,
                   lister, decoder, search>>

NextLargest == StatsFile

SpecLargest == InitLargest /\ [][NextLargest]_vars

(***************************************************************************)
(* The earlier definition of interactive_explorer, which the later one     *)
(* shadows: the handling of one key, as a function of the loop's state.    *)
(***************************************************************************)
\* the keys the earlier loop handles
EarlierKeys == {"q", "up", "down", "left", "right", "space", "enter"}

\* the state one turn of the earlier loop reads and assigns
EarlierState(path, sel, sh, sb, reverse, favs) ==
    [current_path |-> path, selected_idx |-> sel, show_hidden |-> sh, sort_by |-> sb,
     reverse_sort |-> reverse, favorites |-> favs, stop |-> FALSE, raised |-> FALSE]

\* up: "if selected_idx > -1: max(selected_idx - 1, -1) else: -1"
EarlierUp(sel) == IF sel > -1 THEN Max(sel - 1, -1) ELSE -1

\* left: new_page = max(current_page - 1, 0); max(new_page * page_size, -1)
EarlierLeft(current_page, ps) == Max(Max(current_page - 1, 0) * ps, -1)

\* right and space: the first index of the next page, when there is one
EarlierRight(sel, current_page, total_pages, ps) ==
    IF current_page < total_pages - 1
    THEN Min(current_page + 1, total_pages - 1) * ps
    ELSE sel

\* enter: the parent row, or entries[selected_idx] behind "selected_idx < len(entries)"
EarlierEnter(st, es) ==
    IF st.selected_idx = -1
    THEN [st EXCEPT !.current_path = EnterParentPath(@), !.selected_idx = 0]
    ELSE IF st.selected_idx < Len(es)
    THEN LET selected == es[st.selected_idx + 1] IN
         IF selected.is_dir
         THEN [st EXCEPT !.current_path = selected.path, !.selected_idx = 0]
         ELSE st
    ELSE st

\* the if/elif chain of the earlier loop on key
EarlierHandle(key, st, es, ps) ==
    LET total_pages == TotalPages(Len(es), ps)
        current_page == CurrentPage(st.selected_idx, Len(es), ps)
    IN CASE key = "q" -> [st EXCEPT !.stop = TRUE]
         [] key = "up" -> [st EXCEPT !.selected_idx = EarlierUp(@)]
         [] key = "down" -> [st EXCEPT !.selected_idx = Min(@ + 1, Len(es) - 1)]
         [] key = "left" -> [st EXCEPT !.selected_idx = EarlierLeft(current_page, ps)]
         [] key \in {"right", "space"} ->
               [st EXCEPT !.selected_idx = EarlierRight(@, current_page, total_pages, ps)]
         [] key = "enter" -> EarlierEnter(st, es)
         [] OTHER -> st

(***************************************************************************)
(* The claims.                                                             *)
(***************************************************************************)
\* -1 when the listing shows a parent row, 0 at the root
parentFloor == IF current_path # Root THEN -1 ELSE 0

\* C1: whenever the loop awaits a key, selected_idx is an index into the listed
\* entries, or -1 while a parent row exists, or 0 while the listing is empty.
C1_SelectionValid ==
    pc = "await" =>
        \/ 0 <= selected_idx /\ selected_idx < Len(entries)
        \/ selected_idx = -1 /\ current_path # Root
        \/ selected_idx = 0 /\ entries = <<>>

\* C2: no key raises an error that leaves the loop: the loop ends only by quit
\* or by an interrupt.
C2_NoErrorEscapes == pc \in {"await", "done", "interrupted"}

\* C3: in an empty listing selected_idx is 0 and there is one page, and up and
\* down leave selected_idx at 0.
C3_EmptyNoOp ==
    /\ [][entries' = <<>> => (selected_idx' = 0 /\ view'.total_pages = 1)]_vars
    /\ [][(entries = <<>> /\ selected_idx = 0 /\ last_key' \in {"up", "down"})
             => selected_idx' = 0]_vars

\* C3, as the loop behaves: an empty listing has one page and is arrived at with
\* selected_idx = 0; there selected_idx is 0 or -1, and up and down both put it
\* on -1, where it stays under up and down.
C3_EmptyListing ==
    /\ entries = <<>> => (view.total_pages = 1 /\ selected_idx = 0)
    /\ [][entries' = <<>> => (view'.total_pages = 1 /\ selected_idx' \in {0, -1})]_vars
    /\ [][(entries' = <<>> /\ (current_path' # current_path \/ show_hidden' # show_hidden))
             => selected_idx' = 0]_vars
    /\ [][(entries = <<>> /\ last_key' \in {"up", "down"}) => selected_idx' = -1]_vars

\* down moved the cursor of an empty listing from 0 to -1
C3_Witness ==
    /\ entries = <<>>
    /\ view.total_pages = 1
    /\ last_key = "down"
    /\ prev_idx = 0
    /\ selected_idx = -1

\* C4: up sets selected_idx to max(selected_idx - 1, parentFloor): never below -1,
\* and never below 0 at the root.
C4_UpFloor ==
    [][last_key' = "up" =>
          /\ selected_idx' = Max(selected_idx - 1, parentFloor)
          /\ selected_idx' >= -1
          /\ current_path = Root => selected_idx' >= 0]_vars

\* C5: down sets selected_idx to min(selected_idx + 1, len(entries) - 1): it never
\* leaves selected_idx beyond the last entry, and at the last entry it stays there.
C5_DownClamped ==
    [][last_key' = "down" =>
          /\ selected_idx' = (IF selected_idx + 1 <= Len(entries) - 1
                              THEN selected_idx + 1 ELSE Len(entries) - 1)
          /\ selected_idx' <= Len(entries) - 1
          /\ selected_idx' <= Len(entries') - 1
          /\ selected_idx = Len(entries) - 1 => selected_idx' = selected_idx]_vars

\* down on the last entry of a listing of several entries left the cursor there
C5_Witness ==
    /\ pc = "await"
    /\ last_key = "down"
    /\ Len(entries) >= 2
    /\ prev_idx = Len(entries) - 1
    /\ selected_idx = Len(entries) - 1

\* the least k with k * p >= n
CeilDiv(n, p) == CHOOSE k \in 0..n : k * p >= n /\ \A j \in 0..(k - 1) : j * p < n

\* the q with q * p <= m < (q + 1) * p
FloorDiv(m, p) == CHOOSE q \in 0..m : q * p <= m /\ m < (q + 1) * p

\* C6: total_pages is ceil(N / P), at least 1, and for selected_idx in [-1, N-1]
\* the current page is floor((selected_idx + 1) / P) clamped to
\* [0, total_pages - 1], so it lies in that range.
C6_Pagination ==
    pg.stage = "computed" =>
        LET ceil == CeilDiv(pg.n, pg.p)
            floor == FloorDiv(pg.sel + 1, pg.p)
        IN /\ pg.total_pages = (IF ceil >= 1 THEN ceil ELSE 1)
           /\ pg.current_page = (IF floor > pg.total_pages - 1 THEN pg.total_pages - 1
                                 ELSE floor)
           /\ 0 <= pg.current_page
           /\ pg.current_page <= pg.total_pages - 1

\* 7 entries in pages of 3, the last entry selected: 3 pages, the last one current
C6_Witness ==
    /\ pg.stage = "computed"
    /\ pg.n = 7
    /\ pg.p = 3
    /\ pg.sel = 6
    /\ pg.total_pages = 3
    /\ pg.current_page = 2

\* C7: right, before the last page, puts selected_idx on the first entry of the
\* next page, a valid index whose page is the next page; on the last page it
\* changes nothing.
C7_RightNextPage ==
    [][last_key' = "right" =>
          IF view.current_page < view.total_pages - 1
          THEN /\ selected_idx' = (view.current_page + 1) * page_size
               /\ selected_idx' < Len(entries')
               /\ view'.current_page = view.current_page + 1
          ELSE /\ selected_idx' = selected_idx
               /\ current_path' = current_path]_vars

\* C8: left moves to page max(current_page - 1, 0) and puts selected_idx on
\* max(new_page * page_size, parentFloor); the page of the new selected_idx is
\* that page, and on page 0 the cursor lands on index 0.
C8_LeftPreviousPage ==
    [][last_key' = "left" =>
          LET new_page == Max(view.current_page - 1, 0) IN
          /\ selected_idx' = Max(new_page * page_size, parentFloor)
          /\ view'.current_page = new_page
          /\ view.current_page = 0 => selected_idx' = 0]_vars

\* C9: enter on a directory entry makes that entry's path the current path, sets
\* selected_idx to 0 whatever it was, and the next iteration lists the new
\* directory.
C9_EnterDirectory ==
    [][(/\ last_key' = "enter"
        /\ selected_idx >= 0
        /\ selected_idx < Len(entries)
        /\ entries[selected_idx + 1].is_dir) =>
          /\ current_path' = entries[selected_idx + 1].path
          /\ current_path' = Append(current_path, entries[selected_idx + 1].name)
          /\ selected_idx' = 0
          /\ pc' = "await"
          /\ entries' \in Listings(current_path', show_hidden, sort_by, reverse_sort, gone)]_vars

\* enter on the second entry of /B, the directory g, opened /B/g at index 0
C9_Witness ==
    /\ pc = "await"
    /\ last_key = "enter"
    /\ prev_idx = 1
    /\ current_path = <<nm_B, nm_g>>
    /\ selected_idx = 0
    /\ Len(entries) = NFiles

\* C10: enter on the parent row goes to the parent directory with selected_idx 0,
\* and at the root leaves the path alone; the user who keeps going up reaches the
\* root and stays there.
C10_EnterParent ==
    /\ [][(last_key' = "enter" /\ selected_idx = -1) =>
             /\ selected_idx' = 0
             /\ current_path = Root => current_path' = Root
             /\ current_path # Root =>
                   /\ Len(current_path') = Len(current_path) - 1
                   /\ \A i \in 1..Len(current_path') : current_path'[i] = current_path[i]]_vars
    /\ <>[](current_path = Root)

\* enter on the parent row of a directory below /B arrived in /B
C10_Witness ==
    /\ last_key = "enter"
    /\ prev_idx = -1
    /\ current_path = <<nm_B>>
    /\ selected_idx = 0

\* C11: enter on a selected entry that is a file shows the file and returns to
\* the loop with current_path, selected_idx, the listing configuration and the
\* favorites as they were.
C11_EnterFile ==
    [][(/\ pc = "await"
        /\ last_key' = "enter"
        /\ selected_idx >= 0
        /\ selected_idx < Len(entries)
        /\ ~entries[selected_idx + 1].is_dir) =>
          /\ pc' = "await"
          /\ current_path' = current_path
          /\ selected_idx' = selected_idx
          /\ show_hidden' = show_hidden
          /\ sort_by' = sort_by
          /\ reverse_sort' = reverse_sort
          /\ favorites' = favorites]_vars

\* enter on a file below the first row came back with the cursor still on it
C11_Witness ==
    /\ pc = "await"
    /\ last_key = "enter"
    /\ prev_idx >= 1
    /\ selected_idx = prev_idx
    /\ selected_idx < Len(entries)
    /\ ~entries[selected_idx + 1].is_dir

C13_NotFoundResets ==
    [][(/\ pc = "await"
        /\ last_key' = "search"
        /\ search_pick' # <<>>
        /\ search_pick'[1] \notin Dirs
        /\ \A i \in 1..Len(entries') : entries'[i].path # search_pick'[1]) =>
          /\ current_path' = dirname(search_pick'[1])
          /\ selected_idx' = 0]_vars

\* C14: the h key inverts show_hidden, leaves sort_by, reverse_sort and the
\* current path alone, and sets selected_idx to 0 whatever it was.
C14_ToggleHidden ==
    [][(pc = "await" /\ last_key' = "h") =>
          /\ show_hidden' = ~show_hidden
          /\ sort_by' = sort_by
          /\ reverse_sort' = reverse_sort
          /\ current_path' = current_path
          /\ selected_idx' = 0]_vars

\* h at index 3 of a listing that still has more than 3 entries put the cursor on 0
C14_Witness ==
    /\ pc = "await"
    /\ last_key = "h"
    /\ prev_idx = 3
    /\ Len(entries) > prev_idx
    /\ selected_idx = 0

\* C15: the s key with the current sort key chosen inverts reverse_sort and keeps
\* sort_by; with another key chosen, sort_by becomes that key and reverse_sort
\* FALSE; selected_idx becomes 0, show_hidden and the path are unchanged.  (Two
\* choices of the current key in a row are two inversions.)
C15_SortAction ==
    [][(pc = "await" /\ last_key' = "s") =>
          /\ sort_by' \in SortKeys
          /\ \/ sort_by' = sort_by /\ reverse_sort' = ~reverse_sort
             \/ sort_by' # sort_by /\ reverse_sort' = FALSE
          /\ selected_idx' = 0
          /\ show_hidden' = show_hidden
          /\ current_path' = current_path]_vars

\* s from index 1 with the current key, size, chosen again: the order is reversed
C15_Witness ==
    /\ pc = "await"
    /\ last_key = "s"
    /\ sort_by = "size"
    /\ reverse_sort
    /\ prev_idx = 1
    /\ selected_idx = 0

\* C16: in the listed entries every directory comes before every file, whatever
\* sort_by and reverse_sort are.
C16_DirsBeforeFiles ==
    \A i, j \in 1..Len(entries) : (i < j /\ entries[j].is_dir) => entries[i].is_dir

\* C17: listing the same path again under the same configuration, with nothing
\* removed in between, gives the same entries in the same order.
C17_ListingRepeatable ==
    [][(/\ pc = "await"
        /\ pc' = "await"
        /\ current_path' = current_path
        /\ show_hidden' = show_hidden
        /\ sort_by' = sort_by
        /\ reverse_sort' = reverse_sort
        /\ gone' = gone) => entries' = entries]_vars

\* C18: when the current path cannot be listed, the iteration has an empty
\* listing and goes on to await the next key.  (A key is a step that removes
\* nothing; enter on a row that is not there is the IndexError of C2.)
C18_ListingFailureSurvived ==
    [][(/\ pc = "await"
        /\ gone' = gone
        /\ last_key' # "q"
        /\ ~(last_key' = "enter" /\ selected_idx >= Len(entries))
        /\ ~Readable(current_path', gone')) =>
          /\ pc' = "await"
          /\ entries' = <<>>]_vars

\* C19: enter and the search jump never leave the current path on a directory
\* that cannot be listed.
C19_FallBack ==
    [][(/\ pc = "await"
        /\ pc' = "await"
        /\ last_key' \in {"enter", "search"}
        /\ current_path' # current_path) => Readable(current_path', gone')]_vars

\* C20: with show_hidden off no listed entry has a name that starts with '.';
\* with show_hidden on every child of a directory that can be listed is listed,
\* once.
C20_HiddenFilter ==
    /\ ~show_hidden => \A i \in 1..Len(entries) : entries[i].name[1] # Dot
    /\ (show_hidden /\ Readable(current_path, gone)) =>
          LET items == listdir(current_path, gone) IN
          /\ Len(entries) = Len(items)
          /\ \A n \in 1..Len(items) : \E i \in 1..Len(entries) : entries[i].name = items[n]

\* h in '/' switched the hidden entries off: of a, .h and B, two are listed
C20_Witness ==
    /\ pc = "await"
    /\ last_key = "h"
    /\ ~show_hidden
    /\ current_path = Root
    /\ Len(listdir(current_path, gone)) = Len(entries) + 1
    /\ \A i \in 1..Len(entries) : entries[i].name[1] # Dot

\* C21: a failure of os.stat on some children gives those children the values
\* of the except clause (size 0, MIME type unknown) and no other child; the
\* listing has exactly one entry for every child that passes the hidden filter.
C21_StatFailureRecovered ==
    (lister.stage = "returned" /\ Readable(lister.path, lister.removed)) =>
        LET items == FilterHidden(listdir(lister.path, lister.removed), lister.show_hidden)
            res == lister.result
        IN /\ Len(res) = Len(items)
           /\ \A n \in 1..Len(items) :
                 Cardinality({i \in 1..Len(res) : res[i].name = items[n]}) = 1
           /\ \A i \in 1..Len(res) :
                 /\ res[i].path = join(lister.path, res[i].name)
                 /\ res[i].path \in lister.failing =>
                       (~res[i].is_dir /\ res[i].size = 0 /\ res[i].mime_type = "unknown")
                 /\ (~res[i].is_dir /\ res[i].path \notin lister.failing) =>
                       (res[i].size = st_size(res[i].path) /\ res[i].mime_type # "unknown")

\* /B listed by date with os.stat failing on both of its files: five entries
C21_Witness ==
    /\ lister.stage = "returned"
    /\ lister.path = <<nm_B>>
    /\ lister.sort_by = "date"
    /\ lister.failing = {<<nm_B, nm_c>>, <<nm_B, nm_C>>}
    /\ Len(lister.result) = Len(children(lister.path))
    /\ \E i \in 1..Len(lister.result) :
          ~lister.result[i].is_dir /\ lister.result[i].mime_type = "unknown"

\* the first byte of the pending input announces a two- or three-byte key
PrefixedInput ==
    /\ decoder.platform # "prompt"
    /\ Len(decoder.input) > 0
    /\ decoder.input[1] = (IF decoder.platform = "windows" THEN 224 ELSE 27)

\* C22: a call of get_key that ends returns one key of the vocabulary or none,
\* never raises, and after a prefix byte returns an arrow decoded from the whole
\* sequence or none, on Windows and on Unix.
C22_DecoderTotal ==
    (decoder.stage = "called" /\ decoder.platform # "prompt" /\ decoder.kind # "blocked") =>
        /\ decoder.kind = "returned"
        /\ decoder.value \in HandledKeys \cup UnhandledKeys
        /\ PrefixedInput =>
              \/ decoder.value = "none"
              \/ /\ decoder.value \in {"up", "down", "left", "right"}
                 /\ decoder.used = (IF decoder.platform = "windows" THEN 2 ELSE 3)

\* C23: every key a variant of get_key returns is returned by the other two
\* variants as well, and is a key the dispatcher or the pager knows.
C23_SameVocabulary ==
    (decoder.stage = "called" /\ decoder.kind = "returned" /\ decoder.value # "none") =>
        /\ \A platform \in Platforms : decoder.value \in Vocabulary[platform]
        /\ decoder.value \in HandledKeys \cup UnhandledKeys

C25_QuitTerminates ==
    /\ [](pc = "await" => ENABLED Quit)
    /\ [][(pc = "await" /\ last_key' = "q") =>
             /\ pc' = "done"
             /\ UNCHANGED <<current_path, selected_idx, entries, view, show_hidden,
                            sort_by, reverse_sort, favorites>>]_vars
    /\ [][pc # "done"]_vars

\* q pressed with the cursor on index 2 of /B/g, sorted by size
C25_Witness ==
    /\ pc = "done"
    /\ last_key = "q"
    /\ current_path = <<nm_B, nm_g>>
    /\ selected_idx = 2
    /\ sort_by = "size"

\* C26: a key decoded as None changes neither the current path, nor the
\* cursor, nor the listing configuration, nor the favorites.
C26_UnrecognizedKey ==
    [][(pc = "await" /\ last_key' = "none") =>
          /\ pc' = "await"
          /\ current_path' = current_path
          /\ selected_idx' = selected_idx
          /\ show_hidden' = show_hidden
          /\ sort_by' = sort_by
          /\ reverse_sort' = reverse_sort
          /\ favorites' = favorites]_vars

\* an unrecognized key in /B with the cursor on index 3 and a favorite stored
C26_Witness ==
    /\ pc = "await"
    /\ last_key = "none"
    /\ current_path = <<nm_B>>
    /\ prev_idx = 3
    /\ selected_idx = 3
    /\ favorites # <<>>

\* the items os.walk yields up to and including directory d
ItemsUpTo(walk, d) ==
    LET RECURSIVE Sum(_)
        Sum(k) == IF k = 0 THEN 0 ELSE walk[k].n + Sum(k - 1)
    IN Sum(d)

\* C27: the search never holds more than max_results results, and once it
\* holds max_results it examines no further item and walks no further.
C27_SearchBounded ==
    /\ [](search.stage # "off" =>
             /\ search.len_results <= max_results
             /\ search.len_results = max_results => search.stage = "done")
    /\ [][(search.stage = "walking" /\ search'.len_results = max_results) =>
             /\ search'.stage = "done"
             /\ search'.dir = search.dir
             /\ search'.item = search.item]_vars
    /\ [][search.stage # "done"]_vars

\* the search stopped at the hundredth result, inside the second directory
C27_Witness ==
    /\ search.stage = "done"
    /\ search.len_results = max_results
    /\ search.dir = 2
    /\ search.item < search.walk[2].n
    /\ search.examined < ItemsUpTo(search.walk, Len(search.walk))

\* C28: in the statistics pass neither total_files nor the number of files
\* whose size was added ever exceeds max_files.
C28_StatsBounded ==
    stats.stage \in {"walking", "done"} =>
        (stats.total_files <= max_files /\ stats.sized <= max_files)

\* the number of elements of s with size v, and with a size above v
CountSize(s, v) == Cardinality({i \in 1..Len(s) : s[i] = v})
CountAbove(s, v) == Cardinality({i \in 1..Len(s) : s[i] > v})

\* C29: after every insertion largest_files has at most 10 elements, in order
\* of decreasing size, and their sizes are the 10 largest sizes processed so
\* far, all of them while fewer than 10 files were processed.
C29_LargestFiles ==
    stats.stage = "files" =>
        LET lf == stats.largest_files
            kept == [i \in 1..Len(lf) |-> lf[i][2]]
        IN /\ Len(lf) = Min(Len(stats.sizes), keep_largest)
           /\ \A i \in 1..(Len(lf) - 1) : kept[i] >= kept[i + 1]
           /\ \A i \in 1..Len(lf) : stats.sizes[lf[i][1]] = lf[i][2]
           /\ \A i, j \in 1..Len(lf) : lf[i][1] = lf[j][1] => i = j
           /\ \A v \in FileSizes :
                 CountSize(kept, v) =
                     Max(0, Min(CountSize(stats.sizes, v),
                                keep_largest - CountAbove(stats.sizes, v)))

\* eleven files processed, the last one larger than the smallest kept so far:
\* it was kept and a smaller one dropped
C29_Witness ==
    /\ stats.stage = "files"
    /\ Len(stats.sizes) = keep_largest + 1
    /\ Len(stats.largest_files) = keep_largest
    /\ stats.sizes[keep_largest + 1] = 2
    /\ \E i \in 1..keep_largest : stats.sizes[i] = 1
    /\ \E i \in 1..keep_largest : stats.largest_files[i][1] = keep_largest + 1

\* C30: whenever the listing is non-empty and 0 <= selected_idx < len(entries),
\* the page display_directory_listing renders contains the selected entry:
\* start_idx <= selected_idx < end_idx, for every selected_idx and page size.
C30_SelectedOnPage ==
    (pg.stage = "computed" /\ pg.n > 0 /\ 0 <= pg.sel /\ pg.sel < pg.n) =>
        (pg.start_idx <= pg.sel /\ pg.sel < pg.end_idx)

\* the state of the running loop, as the earlier definition would read it
LoopState ==
    EarlierState(current_path, selected_idx, show_hidden, sort_by, reverse_sort, favorites)

\* C31: on q, up, down and enter the two definitions of interactive_explorer
\* agree: from the same current_path, selected_idx and entries they reach the
\* same current_path and selected_idx, and one fails exactly when the other does.
C31_DefinitionsAgree ==
    [][(pc = "await" /\ last_key' \in {"q", "up", "down", "enter"}) =>
          LET earlier == EarlierHandle(last_key', LoopState, entries, page_size) IN
          /\ current_path' = earlier.current_path
          /\ selected_idx' = earlier.selected_idx
          /\ (pc' = "done") <=> earlier.stop
          /\ (pc' = "crashed") <=> earlier.raised]_vars

\* the cursor and paging keys: left, right and space reach the later loop as
\* keys it does not handle (space is decoded to None)
CursorKeys == {"up", "down", "left", "right", "none"}

\* C32: up, down, left, right and space change at most selected_idx:
\* current_path, show_hidden, sort_by, reverse_sort and favorites are unchanged,
\* in the running loop and, for the same key in the same state, in the earlier
\* definition.
C32_CursorFrame ==
    [][(pc = "await" /\ last_key' \in CursorKeys) =>
          /\ UNCHANGED <<current_path, show_hidden, sort_by, reverse_sort, favorites>>
          /\ LET key == IF last_key' = "none" THEN "space" ELSE last_key'
                 earlier == EarlierHandle(key, LoopState, entries, page_size)
             IN earlier = [LoopState EXCEPT !.selected_idx = earlier.selected_idx]]_vars

\* down moved the cursor in a directory that is not the start of the model's
\* defaults: hidden files shown, a favorite recorded
C32_Witness ==
    /\ last_key = "down"
    /\ pc = "await"
    /\ selected_idx = prev_idx + 1
    /\ show_hidden
    /\ favorites # <<>>
    /\ sort_by # "name"

====
